---- MODULE Spec2Model ----
(***************************************************************************)
(* A model of tbayne/priorityqueue (src/priorityQueue.go): a mutex-guarded *)
(* priority queue built on Go's container/heap.                            *)
(*                                                                         *)
(* Slices are modelled as TLA+ sequences; the code's 0-based positions are *)
(* kept, so slot k of the Go slice is q[k+1] here (operator At).           *)
(* An entry is a record [ID, ParentID, Value, Priority, index], one per    *)
(* heap-allocated *QItem.                                                  *)
(***************************************************************************)
EXTENDS Integers, Sequences, FiniteSets, Bags, TLC

(* ---------------------------- bounds ----------------------------------- *)
MaxLen == 3
MaxPriority == 3
NumThreads == 2
MaxPushes == 3

IDs == {"a", "b"}
ParentIDs == {"g", "h"}
Values == {"v"}
Priorities == 1..MaxPriority
Threads == 1..NumThreads

\* what a caller can hand to Push: index is the zero value of the field
Items == [ID : IDs, ParentID : ParentIDs, Value : Values,
          Priority : Priorities, index : {0}]

NoThread == 0

VARIABLES
  data,      \* pq.data: the backing store, a sequence of entries
  op,        \* the last public operation called, its arguments and the
             \* length of the store when it was called
  ret,       \* what that operation returned
  m,         \* pq.m: the thread holding the mutex, or NoThread
  pc,        \* per thread: its position inside a public operation
  popret,    \* per thread: how its last Pop ended ("" before its first)
  panicked,  \* TRUE once a goroutine has panicked (the process is gone)
  pushed,    \* history: the number of Push calls that stored a numbered entry
  got        \* history: per numbered entry, how many Pop calls returned it

vars == <<data, op, ret, m, pc, popret, panicked, pushed, got>>

(* ------------------------- Go helpers ---------------------------------- *)
\* Go's integer division truncates toward zero: (0-1)/2 == 0
GoDiv(a, b) == IF a >= 0 THEN a \div b ELSE -((-a) \div b)

At(q, k) == q[k + 1]

(* ------------------- heap.Interface on QItems -------------------------- *)
QItemsLen(q) == Len(q)

\* Less with the comparison reversed (a min-heap order)
LessFlipped(q, i, j) == At(q, i).Priority < At(q, j).Priority
\* Less with >= in place of >
LessOrEqual(q, i, j) == At(q, i).Priority >= At(q, j).Priority
Less(q, i, j) == At(q, i).Priority > At(q, j).Priority

\* Swap that forgets qData[j].index = j
SwapNoIndex(q, i, j) ==
  LET q1 == [q EXCEPT ![i + 1] = q[j + 1], ![j + 1] = q[i + 1]]
  IN  [q1 EXCEPT ![i + 1].index = i]
Swap(q, i, j) ==
  LET q1 == [q EXCEPT ![i + 1] = q[j + 1], ![j + 1] = q[i + 1]]
      q2 == [q1 EXCEPT ![i + 1].index = i]
  IN  [q2 EXCEPT ![j + 1].index = j]

QItemsPush(q, x) ==
  LET n == Len(q)
      item == [x EXCEPT !.index = n]
  IN  Append(q, item)

\* returns the shortened slice, the removed entry and the value left in the
\* vacated slot old[n-1] (<<>> is nil)
\* (QItemsPopFirst: a Pop that takes slot 0 instead of slot n-1)
QItemsPopFirst(q) ==
  LET n == Len(q)
      item == At(q, 0)
  IN  [q |-> SubSeq(q, 2, n), item |-> [item EXCEPT !.index = -1], slot |-> <<>>]
\* (QItemsPopNoSentinel: a Pop without item.index = -1)
QItemsPopNoSentinel(q) ==
  LET n == Len(q)
      item == At(q, n - 1)
  IN  [q |-> SubSeq(q, 1, n - 1), item |-> item, slot |-> <<>>]
QItemsPop(q) ==
  LET n == Len(q)
      item == At(q, n - 1)
  IN  [q |-> SubSeq(q, 1, n - 1), item |-> [item EXCEPT !.index = -1], slot |-> <<>>]

(* --------------------------- container/heap ---------------------------- *)
RECURSIVE up(_, _)
up(q, j) ==
  LET i == GoDiv(j - 1, 2)
  IN  IF i = j \/ ~Less(q, j, i) THEN q ELSE up(Swap(q, i, j), i)

RECURSIVE downLoop(_, _, _)
downLoop(q, i, n) ==
  LET j1 == 2 * i + 1
  IN  IF j1 >= n \/ j1 < 0
      THEN [q |-> q, i |-> i]
      ELSE LET j2 == j1 + 1
               j == IF j2 < n /\ Less(q, j2, j1) THEN j2 ELSE j1
           IN  IF ~Less(q, j, i)
               THEN [q |-> q, i |-> i]
               ELSE downLoop(Swap(q, i, j), j, n)

down(q, i0, n) ==
  LET r == downLoop(q, i0, n)
  IN  [q |-> r.q, moved |-> r.i > i0]

heapPush(q, x) ==
  LET q1 == QItemsPush(q, x)
  IN  up(q1, QItemsLen(q1) - 1)

\* heap.Pop on a non-empty store (on an empty one Swap(0, -1) panics)
heapPop(q) ==
  LET n == QItemsLen(q) - 1
      q1 == Swap(q, 0, n)
      q2 == down(q1, 0, n).q
  IN  QItemsPop(q2)

heapRemove(q, i) ==
  LET n == QItemsLen(q) - 1
      q1 == IF n # i
            THEN LET s == Swap(q, i, n)
                     d == down(s, i, n)
                 IN  IF ~d.moved THEN up(d.q, i) ELSE d.q
            ELSE q
  IN  QItemsPop(q1)

heapFix(q, i) ==
  LET d == down(q, i, QItemsLen(q))
  IN  IF ~d.moved THEN up(d.q, i) ELSE d.q

(* --------------------- QItems.update / QItems.delete ------------------- *)
\* item is the entry stored at slot pos; Fix runs at the entry's index field
\* (updateNeighbour: the priority lands in the slot after the one found)
updateNeighbour(q, pos, priority) ==
  LET at == IF pos + 1 < Len(q) THEN pos + 1 ELSE pos
      q1 == [q EXCEPT ![at + 1].Priority = priority]
  IN  heapFix(q1, At(q1, at).index)
update(q, pos, priority) ==
  LET q1 == [q EXCEPT ![pos + 1].Priority = priority]
  IN  heapFix(q1, At(q1, pos).index)

delete(q, index) ==
  IF index < QItemsLen(q)
  THEN [q |-> heapRemove(q, index).q, err |-> "nil"]
  ELSE [q |-> q, err |-> "range"]

(* ------------------------ PriorityQueue bodies ------------------------- *)
NoRet == [n |-> 0, err |-> "nil", item |-> <<>>]

\* the range loop of UpdatePriorityByParentId: slot i is read when the loop
\* reaches it, after the swaps made by the earlier iterations
RECURSIVE UpdateLoop(_, _, _, _, _, _)
UpdateLoop(q, i, n, parentID, priority, itemsUpdated) ==
  IF i >= n
  THEN [q |-> q, n |-> itemsUpdated]
  ELSE LET element == At(q, i)
       IN  IF element.ParentID = parentID
           THEN LET index == element.index
                IN  UpdateLoop(update(q, index, priority), i + 1, n,
                               parentID, priority, itemsUpdated + 1)
           ELSE UpdateLoop(q, i + 1, n, parentID, priority, itemsUpdated)

UpdateBody(q, parentID, priority) ==
  UpdateLoop(q, 0, Len(q), parentID, priority, 0)

\* a drain loop that stops one entry early
RECURSIVE ClearLoopStopsEarly(_, _)
ClearLoopStopsEarly(q, removed) ==
  IF QItemsLen(q) > 1
  THEN LET r == heapPop(q) IN ClearLoopStopsEarly(r.q, Append(removed, r.item))
  ELSE [q |-> q, removed |-> removed]
RECURSIVE ClearLoop(_, _)
ClearLoop(q, removed) ==
  IF QItemsLen(q) > 0
  THEN LET r == heapPop(q) IN ClearLoop(r.q, Append(removed, r.item))
  ELSE [q |-> q, removed |-> removed]

\* a scan without the break: the last match wins
RECURSIVE LocateLoopLast(_, _, _)
LocateLoopLast(q, i, id) ==
  IF i >= Len(q) THEN -1
  ELSE LET later == LocateLoopLast(q, i + 1, id)
       IN  IF later # -1 THEN later
           ELSE IF At(q, i).ID = id THEN At(q, i).index ELSE -1
RECURSIVE LocateLoop(_, _, _)
LocateLoop(q, i, id) ==
  IF i >= Len(q) THEN -1
  ELSE IF At(q, i).ID = id THEN At(q, i).index
  ELSE LocateLoop(q, i + 1, id)

\* a lookup whose index starts at 0 instead of -1
locateItemByIDZero(q, id) ==
  LET found == LocateLoop(q, 0, id)
      index == IF found = -1 THEN 0 ELSE found
  IN  IF index = -1
      THEN [index |-> -1, err |-> "notfound"]
      ELSE [index |-> index, err |-> "nil"]
locateItemByID(q, id) ==
  LET index == LocateLoop(q, 0, id)
  IN  IF index = -1
      THEN [index |-> -1, err |-> "notfound"]
      ELSE [index |-> index, err |-> "nil"]

\* the entry heap.Remove(q, index) takes out of the store
RemovedBy(q, index) == heapRemove(q, index).item

DeleteByIdBody(q, id) ==
  LET l == locateItemByID(q, id)
  IN  IF l.err # "nil"
      THEN [q |-> q, err |-> l.err, removed |-> <<>>]
      ELSE LET d == delete(q, l.index)
           IN  [q |-> d.q, err |-> d.err,
                removed |-> IF d.err = "nil"
                            THEN <<RemovedBy(q, l.index)>> ELSE <<>>]

RECURSIVE CollectIndexes(_, _, _)
CollectIndexes(q, i, parentID) ==
  IF i >= Len(q) THEN <<>>
  ELSE IF At(q, i).ParentID = parentID
       THEN <<At(q, i).index>> \o CollectIndexes(q, i + 1, parentID)
       ELSE CollectIndexes(q, i + 1, parentID)

\* "for index := range indexesToDelete": index runs over 0..k-1, the
\* positions in indexesToDelete, not over the collected values
\* a loop that counts the entry before it tries to delete it
RECURSIVE DeleteLoopMiscount(_, _, _, _, _)
DeleteLoopMiscount(q, index, k, itemsDeleted, removed) ==
  IF index >= k
  THEN [q |-> q, n |-> itemsDeleted, err |-> "nil", removed |-> removed]
  ELSE LET d == delete(q, index)
       IN  IF d.err # "nil"
           THEN [q |-> q, n |-> itemsDeleted + 1, err |-> d.err, removed |-> removed]
           ELSE DeleteLoopMiscount(d.q, index + 1, k, itemsDeleted + 1,
                                   Append(removed, RemovedBy(q, index)))
RECURSIVE DeleteLoop(_, _, _, _, _)
DeleteLoop(q, index, k, itemsDeleted, removed) ==
  IF index >= k
  THEN [q |-> q, n |-> itemsDeleted, err |-> "nil", removed |-> removed]
  ELSE LET d == delete(q, index)
       IN  IF d.err # "nil"
           THEN [q |-> q, n |-> itemsDeleted, err |-> d.err, removed |-> removed]
           ELSE DeleteLoop(d.q, index + 1, k, itemsDeleted + 1,
                           Append(removed, RemovedBy(q, index)))

DeleteByParentBody(q, parentID) ==
  LET indexesToDelete == CollectIndexes(q, 0, parentID)
  IN  DeleteLoop(q, 0, Len(indexesToDelete), 0, <<>>)

(* ----------------------------- Init ------------------------------------ *)
\* a thread that is not inside any public operation
Idle == [op |-> "", at |-> "idle"]

OpRec(name, key, priority, item, len) ==
  [name |-> name, key |-> key, priority |-> priority, item |-> item, len |-> len]

Init ==
  /\ data = <<>>
  /\ op = OpRec("NewPriorityQueue", "", 0, <<>>, 0)
  /\ ret = NoRet
  /\ m = NoThread
  /\ pc = [t \in Threads |-> Idle]
  /\ popret = [t \in Threads |-> ""]
  /\ panicked = FALSE
  /\ pushed = 0
  /\ got = [tok \in 1..MaxPushes |-> 0]

(* --------------- public operations, one caller at a time --------------- *)
Called(name, key, priority, item) ==
  /\ op' = OpRec(name, key, priority, item, Len(data))
  /\ UNCHANGED <<m, pc, popret, panicked, pushed, got>>

LenOp ==
  /\ Called("Len", "", 0, <<>>)
  /\ ret' = [NoRet EXCEPT !.n = QItemsLen(data)]
  /\ UNCHANGED data

Push(i) ==
  /\ Len(data) < MaxLen
  /\ Called("Push", "", 0, <<i>>)
  /\ data' = heapPush(data, i)
  /\ ret' = NoRet

\* a Pop whose empty branch forgets the error
PopNoError ==
  /\ Called("Pop", "", 0, <<>>)
  /\ IF QItemsLen(data) > 0
     THEN LET r == heapPop(data)
          IN  /\ data' = r.q
              /\ ret' = [NoRet EXCEPT !.item = <<r.item>>]
     ELSE /\ ret' = NoRet
          /\ UNCHANGED data
Pop ==
  /\ Called("Pop", "", 0, <<>>)
  /\ IF QItemsLen(data) > 0
     THEN LET r == heapPop(data)
          IN  /\ data' = r.q
              /\ ret' = [NoRet EXCEPT !.item = <<r.item>>]
     ELSE /\ ret' = [NoRet EXCEPT !.err = "empty"]
          /\ UNCHANGED data

UpdatePriorityByParentId(parentID, priority) ==
  /\ Called("UpdatePriorityByParentId", parentID, priority, <<>>)
  /\ LET r == UpdateBody(data, parentID, priority)
     IN  /\ data' = r.q
         /\ ret' = [NoRet EXCEPT !.n = r.n]

Clear ==
  /\ Called("Clear", "", 0, <<>>)
  /\ data' = ClearLoop(data, <<>>).q
  /\ ret' = NoRet

Destroy ==
  /\ Called("Destroy", "", 0, <<>>)
  /\ LET cleared == ClearLoop(data, <<>>).q   \* pq.Clear()
     IN  data' = <<>>                          \* pq.data = nil
  /\ ret' = NoRet

DeleteItemById(id) ==
  /\ Called("DeleteItemById", id, 0, <<>>)
  /\ LET r == DeleteByIdBody(data, id)
     IN  /\ data' = r.q
         /\ ret' = [NoRet EXCEPT !.err = r.err]

DeleteItemsByParentId(parentID) ==
  /\ Called("DeleteItemsByParentId", parentID, 0, <<>>)
  /\ LET r == DeleteByParentBody(data, parentID)
     IN  /\ data' = r.q
         /\ ret' = [NoRet EXCEPT !.n = r.n, !.err = r.err]

Next ==
  \/ LenOp
  \/ \E i \in Items : Push(i)
  \/ Pop
  \/ \E g \in ParentIDs, p \in Priorities : UpdatePriorityByParentId(g, p)
  \/ Clear
  \/ Destroy
  \/ \E id \in IDs : DeleteItemById(id)
  \/ \E g \in ParentIDs : DeleteItemsByParentId(g)

Spec == Init /\ [][Next]_vars

(* ------------- public operations called by concurrent threads ---------- *)
\* Each call is cut where the code synchronises: the call, Lock(), and the
\* body that runs under the mutex up to the deferred Unlock().  Pop reads
\* pq.data.Len() before it locks, and Destroy assigns pq.data after Clear
\* has unlocked; those two steps run without the mutex.
ConcItems == {i \in Items : i.ID = "a" /\ i.ParentID = "g" /\ i.Priority <= 2}
ConcParentIDs == {"g"}
ConcPriorities == {1, 2}

LockedOps == {"Len", "Push", "UpdatePriorityByParentId", "Clear",
              "DeleteItemById", "DeleteItemsByParentId", "Destroy"}

Running == ~panicked

TCall(t, name) ==
  /\ Running
  /\ pc[t] = Idle
  /\ pc' = [pc EXCEPT ![t] = [op |-> name,
                              at |-> IF name = "Pop" THEN "check" ELSE "lock"]]
  /\ UNCHANGED <<data, op, ret, m, popret, panicked, pushed, got>>

\* line 61: if pq.data.Len() > 0, evaluated without the mutex
TPopCheck(t) ==
  /\ Running
  /\ pc[t] = [op |-> "Pop", at |-> "check"]
  /\ IF QItemsLen(data) > 0
     THEN /\ pc' = [pc EXCEPT ![t] = [op |-> "Pop", at |-> "lock"]]
          /\ UNCHANGED popret
     ELSE /\ pc' = [pc EXCEPT ![t] = Idle]
          /\ popret' = [popret EXCEPT ![t] = "empty"]
  /\ UNCHANGED <<data, op, ret, m, panicked, pushed, got>>

TLock(t) ==
  /\ Running
  /\ pc[t].at = "lock"
  /\ m = NoThread
  /\ m' = t
  /\ pc' = [pc EXCEPT ![t].at = "body"]
  /\ UNCHANGED <<data, op, ret, popret, panicked, pushed, got>>

InBody(t, name) ==
  /\ Running
  /\ pc[t] = [op |-> name, at |-> "body"]
  /\ m = t

\* the deferred Unlock and the return
Return(t) ==
  /\ m' = NoThread
  /\ pc' = [pc EXCEPT ![t] = Idle]
  /\ UNCHANGED <<op, ret>>

TLenBody(t) ==
  /\ InBody(t, "Len")
  /\ Return(t)
  /\ UNCHANGED <<data, popret, panicked, pushed, got>>

TPushBody(t, i) ==
  /\ InBody(t, "Push")
  /\ Len(data) < MaxLen
  /\ data' = heapPush(data, i)
  /\ Return(t)
  /\ UNCHANGED <<popret, panicked, pushed, got>>

\* lines 62-65; heap.Pop on an empty store calls Swap(0, -1), whose
\* qData[0] is out of range: the goroutine panics (the deferred Unlock
\* runs) and the process dies
TPopBody(t) ==
  /\ InBody(t, "Pop")
  /\ Return(t)
  /\ UNCHANGED <<pushed, got>>
  /\ IF QItemsLen(data) > 0
     THEN /\ data' = heapPop(data).q
          /\ popret' = [popret EXCEPT ![t] = "item"]
          /\ UNCHANGED panicked
     ELSE /\ panicked' = TRUE
          /\ popret' = [popret EXCEPT ![t] = "panic"]
          /\ UNCHANGED data

TUpdateBody(t, parentID, priority) ==
  /\ InBody(t, "UpdatePriorityByParentId")
  /\ data' = UpdateBody(data, parentID, priority).q
  /\ Return(t)
  /\ UNCHANGED <<popret, panicked, pushed, got>>

TClearBody(t) ==
  /\ InBody(t, "Clear")
  /\ data' = ClearLoop(data, <<>>).q
  /\ Return(t)
  /\ UNCHANGED <<popret, panicked, pushed, got>>

\* Destroy: pq.Clear() returns (mutex released), pq.data = nil still to do
TDestroyClear(t) ==
  /\ InBody(t, "Destroy")
  /\ data' = ClearLoop(data, <<>>).q
  /\ m' = NoThread
  /\ pc' = [pc EXCEPT ![t].at = "assign"]
  /\ UNCHANGED <<op, ret, popret, panicked, pushed, got>>

\* line 43: pq.data = nil, written without the mutex
TDestroyAssign(t) ==
  /\ Running
  /\ pc[t] = [op |-> "Destroy", at |-> "assign"]
  /\ data' = <<>>
  /\ pc' = [pc EXCEPT ![t] = Idle]
  /\ UNCHANGED <<op, ret, m, popret, panicked, pushed, got>>

TDeleteByIdBody(t, id) ==
  /\ InBody(t, "DeleteItemById")
  /\ data' = DeleteByIdBody(data, id).q
  /\ Return(t)
  /\ UNCHANGED <<popret, panicked, pushed, got>>

TDeleteByParentBody(t, parentID) ==
  /\ InBody(t, "DeleteItemsByParentId")
  /\ data' = DeleteByParentBody(data, parentID).q
  /\ Return(t)
  /\ UNCHANGED <<popret, panicked, pushed, got>>

NextConc ==
  \/ \E t \in Threads, name \in LockedOps \cup {"Pop"} : TCall(t, name)
  \/ \E t \in Threads : TPopCheck(t)
  \/ \E t \in Threads : TLock(t)
  \/ \E t \in Threads : TLenBody(t)
  \/ \E t \in Threads, i \in ConcItems : TPushBody(t, i)
  \/ \E t \in Threads : TPopBody(t)
  \/ \E t \in Threads, g \in ConcParentIDs, p \in ConcPriorities : TUpdateBody(t, g, p)
  \/ \E t \in Threads : TClearBody(t)
  \/ \E t \in Threads : TDestroyClear(t)
  \/ \E t \in Threads : TDestroyAssign(t)
  \/ \E t \in Threads, id \in IDs : TDeleteByIdBody(t, id)
  \/ \E t \in Threads, g \in ConcParentIDs : TDeleteByParentBody(t, g)

SpecConc == Init /\ [][NextConc]_vars

\* threads that only call Push and Pop
NextPushPop ==
  \/ \E t \in Threads, name \in {"Push", "Pop"} : TCall(t, name)
  \/ \E t \in Threads : TPopCheck(t)
  \/ \E t \in Threads : TLock(t)
  \/ \E t \in Threads, i \in ConcItems : TPushBody(t, i)
  \/ \E t \in Threads : TPopBody(t)

SpecPushPop == Init /\ [][NextPushPop]_vars

\* threads that only call Push and Pop, every pushed entry carrying its own
\* number as Value so that the entries Pop returns can be told apart
Calling(name) == {t \in Threads : pc[t].op = name}

\* a Push may be called while fewer than MaxPushes (and fewer than MaxLen
\* beyond the stored entries) have been called
CanPush ==
  /\ pushed + Cardinality(Calling("Push")) < MaxPushes
  /\ Len(data) + Cardinality(Calling("Push")) < MaxLen

Numbered(tok, p) ==
  [ID |-> "a", ParentID |-> "g", Value |-> tok, Priority |-> p, index |-> 0]

\* lines 54-56 under the mutex
TPushTok(t, p) ==
  /\ InBody(t, "Push")
  /\ data' = heapPush(data, Numbered(pushed + 1, p))
  /\ pushed' = pushed + 1
  /\ Return(t)
  /\ UNCHANGED <<popret, panicked, got>>

\* a Pop body that returns the top entry and leaves it in the store
TPopTokPeek(t) ==
  /\ InBody(t, "Pop")
  /\ Return(t)
  /\ UNCHANGED pushed
  /\ IF QItemsLen(data) > 0
     THEN /\ UNCHANGED data
          /\ got' = [got EXCEPT ![At(data, 0).Value] = @ + 1]
          /\ popret' = [popret EXCEPT ![t] = "item"]
          /\ UNCHANGED panicked
     ELSE /\ panicked' = TRUE
          /\ popret' = [popret EXCEPT ![t] = "panic"]
          /\ UNCHANGED <<data, got>>
\* lines 62-65 under the mutex; on an empty store heap.Pop panics and the
\* call returns nothing
TPopTok(t) ==
  /\ InBody(t, "Pop")
  /\ Return(t)
  /\ UNCHANGED pushed
  /\ IF QItemsLen(data) > 0
     THEN LET r == heapPop(data)
          IN  /\ data' = r.q
              /\ got' = [got EXCEPT ![r.item.Value] = @ + 1]
              /\ popret' = [popret EXCEPT ![t] = "item"]
              /\ UNCHANGED panicked
     ELSE /\ panicked' = TRUE
          /\ popret' = [popret EXCEPT ![t] = "panic"]
          /\ UNCHANGED <<data, got>>

NextTokens ==
  \/ \E t \in Threads : CanPush /\ TCall(t, "Push")
  \/ \E t \in Threads : TCall(t, "Pop")
  \/ \E t \in Threads : TPopCheck(t)
  \/ \E t \in Threads : TLock(t)
  \/ \E t \in Threads, p \in ConcPriorities : TPushTok(t, p)
  \/ \E t \in Threads : TPopTok(t)

SpecTokens == Init /\ [][NextTokens]_vars

(* ------------------------------ claims --------------------------------- *)
\* what a caller can see of an entry: everything but the index field
Content(e) ==
  [ID |-> e.ID, ParentID |-> e.ParentID, Value |-> e.Value, Priority |-> e.Priority]

RECURSIVE ContentBag(_)
ContentBag(q) ==
  IF q = <<>> THEN EmptyBag
  ELSE ContentBag(Tail(q)) (+) SetToBag({Content(Head(q))})

InGroup(q, parentID) == SelectSeq(q, LAMBDA e : e.ParentID = parentID)
NotInGroup(q, parentID) == SelectSeq(q, LAMBDA e : e.ParentID # parentID)

DistinctPriorities(q) ==
  \A i, j \in 1..Len(q) : i # j => q[i].Priority # q[j].Priority

\* C1: in every state between public operations the store is a max-heap:
\* for every position i > 0, data[(i-1)/2].Priority >= data[i].Priority.
HeapInvariant ==
  \A i \in 1..(Len(data) - 1) :
    At(data, GoDiv(i - 1, 2)).Priority >= At(data, i).Priority

\* a full store in which a group update has left an updated entry below a
\* root of higher priority
HeapInvariantWitness ==
  /\ op.name = "UpdatePriorityByParentId"
  /\ Len(data) = MaxLen
  /\ ret.n > 1
  /\ At(data, 0).Priority > op.priority
  /\ \E k \in 2..Len(data) :
       data[k].ParentID = op.key /\ data[k].Priority = op.priority

\* C2: Pop on a non-empty queue returns, with a nil error, one entry of the
\* store and removes exactly that entry; its Priority is >= that of every
\* entry left, and strictly greater when the priorities were pairwise
\* distinct.  A Pop that follows a successful Pop never returns a higher
\* priority, and a Pop that follows the Push of an entry whose priority is
\* above every other stored one returns that entry.
PopStep ==
  /\ (op'.name = "Pop" /\ Len(data) > 0) =>
       /\ ret'.err = "nil"
       /\ Len(ret'.item) = 1
       /\ Len(data') = Len(data) - 1
       /\ ContentBag(data) = ContentBag(data') (+) SetToBag({Content(ret'.item[1])})
       /\ \A k \in 1..Len(data') : ret'.item[1].Priority >= data'[k].Priority
       /\ DistinctPriorities(data) =>
            \A k \in 1..Len(data') : ret'.item[1].Priority > data'[k].Priority
  /\ (op.name = "Pop" /\ ret.err = "nil" /\ op'.name = "Pop" /\ ret'.err = "nil")
       => ret'.item[1].Priority <= ret.item[1].Priority
  /\ (/\ op.name = "Push"
      /\ op'.name = "Pop"
      /\ Cardinality({k \in 1..Len(data) :
                        data[k].Priority >= op.item[1].Priority}) = 1)
       => /\ ret'.err = "nil"
          /\ Content(ret'.item[1]) = Content(op.item[1])

PopReturnsMax == [][PopStep]_vars

\* a Pop from a full store of pairwise distinct priorities
PopReturnsMaxWitness ==
  /\ op.name = "Pop"
  /\ ret.err = "nil"
  /\ Len(data) = MaxLen - 1
  /\ DistinctPriorities(data \o ret.item)

\* C3: between public operations every entry stored at slot k has its
\* index field equal to k.
PositionConsistency ==
  \A k \in 0..(Len(data) - 1) : At(data, k).index = k

\* a group delete that took two entries out of a full store
PositionConsistencyWitness ==
  /\ op.name = "DeleteItemsByParentId"
  /\ ret.err = "nil"
  /\ ret.n = 2
  /\ Len(data) = MaxLen - 2

\* C4: a thread that is at a step reading or writing pq.data holds pq.m.
AccessesStore(t) == pc[t].at \in {"check", "body", "assign"}

MutexHeldOnAccess ==
  \A t \in Threads : AccessesStore(t) => m = t

\* C5: no Pop call ends in a panic: each returns an entry or the
\* empty-queue error, and heap.Pop is never run on an empty store.
PopNeverPanics ==
  /\ ~panicked
  /\ \A t \in Threads : popret[t] \in {"", "item", "empty"}

\* C6: after UpdatePriorityByParentId(g, p) every entry of the store whose
\* ParentID is g has Priority p.
UpdateSetsWholeGroup ==
  op.name = "UpdatePriorityByParentId" =>
    \A k \in 1..Len(data) :
      data[k].ParentID = op.key => data[k].Priority = op.priority

\* C7: DeleteItemsByParentId(g) leaves in the store exactly the entries it
\* held when called whose ParentID is not g.
DeleteRemovesExactlyGroupStep ==
  op'.name = "DeleteItemsByParentId" =>
    ContentBag(data') = ContentBag(NotInGroup(data, op'.key))

DeleteRemovesExactlyGroup == [][DeleteRemovesExactlyGroupStep]_vars

\* C8: DeleteItemsByParentId(g) on a store with k entries of ParentID g
\* returns (k, nil) and shortens the store by k.
DeleteReturnsGroupSizeStep ==
  op'.name = "DeleteItemsByParentId" =>
    LET k == Len(InGroup(data, op'.key))
    IN  /\ ret'.n = k
        /\ ret'.err = "nil"
        /\ Len(data') = Len(data) - k

DeleteReturnsGroupSize == [][DeleteReturnsGroupSizeStep]_vars

\* C9: no public operation returns the "Index out of range" error of
\* QItems.delete.
RangeErrorUnreachable == ret.err # "range"

\* C10: a public operation that returns an error has left the store as it
\* was and reports no entry removed.
ErrorLeavesStoreUntouchedStep ==
  (op'.name \in {"Pop", "DeleteItemById", "DeleteItemsByParentId"}
     /\ ret'.err # "nil")
    => /\ data' = data
       /\ ret'.n = 0

ErrorLeavesStoreUntouched == [][ErrorLeavesStoreUntouchedStep]_vars

\* C11: DeleteItemById(id), when some entry has that ID, returns nil and
\* removes exactly one entry, the first in store order whose ID is id; the
\* store gets one shorter and every other entry stays with its fields.
FirstWithID(q, id) ==
  CHOOSE k \in 1..Len(q) :
    q[k].ID = id /\ \A j \in 1..(k - 1) : q[j].ID # id

DeleteByIdRemovesFirstStep ==
  (op'.name = "DeleteItemById" /\ \E k \in 1..Len(data) : data[k].ID = op'.key)
    => /\ ret'.err = "nil"
       /\ Len(data') = Len(data) - 1
       /\ ContentBag(data) =
            ContentBag(data')
              (+) SetToBag({Content(data[FirstWithID(data, op'.key)])})

DeleteByIdRemovesFirst == [][DeleteByIdRemovesFirstStep]_vars

\* a delete by ID from a full store that leaves another entry with that ID
DeleteByIdRemovesFirstWitness ==
  /\ op.name = "DeleteItemById"
  /\ op.len = MaxLen
  /\ ret.err = "nil"
  /\ Len(data) = MaxLen - 1
  /\ \E k \in 1..Len(data) : data[k].ID = op.key
  /\ \E k \in 1..Len(data) : data[k].ID # op.key

\* C12: Pop on an empty queue returns no entry and the empty-queue error and
\* leaves the queue empty, whatever emptied it.
PopOnEmptyStep ==
  (op'.name = "Pop" /\ Len(data) = 0)
    => /\ ret'.item = <<>>
       /\ ret'.err = "empty"
       /\ data' = <<>>

PopOnEmpty == [][PopOnEmptyStep]_vars

\* a Pop that found the queue empty
PopOnEmptyWitness ==
  /\ op.name = "Pop"
  /\ op.len = 0
  /\ ret.err = "empty"
  /\ ret.item = <<>>
  /\ Len(data) = 0

\* C13: length accounting, step by step: Push adds one entry; a successful
\* Pop or DeleteItemById takes one and a failed one none;
\* DeleteItemsByParentId takes as many as the count it returns; Clear (and
\* Destroy) takes every entry it drains; UpdatePriorityByParentId and Len
\* take none; and Len() returns the length of the store.
Removed(name, r) ==
  CASE name = "Push" -> -1
    [] name \in {"Pop", "DeleteItemById"} -> IF r.err = "nil" THEN 1 ELSE 0
    [] name = "DeleteItemsByParentId" -> r.n
    [] OTHER -> 0

LengthAccountingStep ==
  /\ op'.name \in {"Push", "Pop", "DeleteItemById", "DeleteItemsByParentId",
                   "UpdatePriorityByParentId", "Len"}
       => Len(data') = Len(data) - Removed(op'.name, ret')
  /\ op'.name \in {"Clear", "Destroy"}
       => Len(data') = Len(data) - Len(ClearLoop(data, <<>>).removed)
  /\ op'.name = "Len" => ret'.n = Len(data)

LengthAccounting == [][LengthAccountingStep]_vars

\* a group delete that stopped on an error after removing one entry of a
\* full store: the count it returned is still what left the store
LengthAccountingWitness ==
  /\ op.name = "DeleteItemsByParentId"
  /\ op.len = MaxLen
  /\ ret.n = MaxLen - Len(data)
  /\ ret.n > 0
  /\ ret.err = "range"

\* C14: UpdatePriorityByParentId(g, p) returns the number of entries whose
\* ParentID is g when it is called.
UpdateReturnsGroupSizeStep ==
  op'.name = "UpdatePriorityByParentId" =>
    ret'.n = Len(InGroup(data, op'.key))

UpdateReturnsGroupSize == [][UpdateReturnsGroupSizeStep]_vars

\* C15: DeleteItemById(id) when no entry has that ID returns the not-found
\* error and leaves the store as it was.
DeleteByIdNotFoundStep ==
  (op'.name = "DeleteItemById" /\ \A k \in 1..Len(data) : data[k].ID # op'.key)
    => /\ ret'.err = "notfound"
       /\ data' = data

DeleteByIdNotFound == [][DeleteByIdNotFoundStep]_vars

\* a delete by an ID that none of the entries of a full store has
DeleteByIdNotFoundWitness ==
  /\ op.name = "DeleteItemById"
  /\ op.len = MaxLen
  /\ ret.err = "notfound"
  /\ Len(data) = MaxLen
  /\ \A k \in 1..Len(data) : data[k].ID # op.key

\* C16: Clear leaves the store empty whatever it held, a Clear of an empty
\* store changes nothing, Len() after a Clear is 0, and the queue stays
\* usable: a Push after a Clear stores the entry at slot 0, and a Pop after
\* a Push into an empty store returns the pushed entry.
ClearStep ==
  /\ op'.name = "Clear" => data' = <<>>
  /\ (op'.name = "Clear" /\ data = <<>>) => data' = data
  /\ (op.name = "Clear" /\ op'.name = "Len") => ret'.n = 0
  /\ (op.name = "Clear" /\ op'.name = "Push")
       => data' = <<[op'.item[1] EXCEPT !.index = 0]>>
  /\ (op.name = "Push" /\ op.len = 0 /\ op'.name = "Pop")
       => /\ ret'.err = "nil"
          /\ Content(ret'.item[1]) = Content(op.item[1])
          /\ data' = <<>>

ClearEmpties == [][ClearStep]_vars

\* a Clear that drained a full store
ClearEmptiesWitness ==
  /\ op.name = "Clear"
  /\ op.len = MaxLen
  /\ data = <<>>

\* C17: UpdatePriorityByParentId(g, p) keeps the stored entries and their
\* ID, ParentID and Value, and the Priority of every entry whose ParentID is
\* not g; when no entry has ParentID g it returns 0 and leaves the store
\* exactly as it was.
Identity(e) == [ID |-> e.ID, ParentID |-> e.ParentID, Value |-> e.Value]

RECURSIVE IdentityBag(_)
IdentityBag(q) ==
  IF q = <<>> THEN EmptyBag
  ELSE IdentityBag(Tail(q)) (+) SetToBag({Identity(Head(q))})

UpdateFrameStep ==
  op'.name = "UpdatePriorityByParentId" =>
    /\ Len(data') = Len(data)
    /\ IdentityBag(data') = IdentityBag(data)
    /\ ContentBag(NotInGroup(data', op'.key)) = ContentBag(NotInGroup(data, op'.key))
    /\ InGroup(data, op'.key) = <<>> => (ret'.n = 0 /\ data' = data)

UpdateFrame == [][UpdateFrameStep]_vars

\* a group update on a full store that left the group at the root, above an
\* entry of another group whose priority is not the new one
UpdateFrameWitness ==
  /\ op.name = "UpdatePriorityByParentId"
  /\ op.len = MaxLen
  /\ ret.n > 0
  /\ At(data, 0).ParentID = op.key
  /\ At(data, 0).Priority = op.priority
  /\ \E k \in 2..Len(data) :
       data[k].ParentID # op.key /\ data[k].Priority # op.priority

\* C18: every entry that leaves the store, through Pop, Clear,
\* DeleteItemById or DeleteItemsByParentId, carries index -1, the slot it
\* vacated at the end of the backing array is nil, and no entry still in the
\* store has index -1.
AllSentinel(removed) == \A k \in 1..Len(removed) : removed[k].index = -1

RemovalSentinelStep ==
  /\ \A k \in 1..Len(data') : data'[k].index # -1
  /\ op'.name \in {"Clear", "DeleteItemById", "DeleteItemsByParentId"}
       => \A i \in 0..(Len(data) - 1) :
            LET r == heapRemove(data, i)
            IN  r.slot = <<>> /\ r.item.index = -1
  /\ (op'.name = "Pop" /\ Len(data) > 0)
       => /\ ret'.item[1].index = -1
          /\ heapPop(data).slot = <<>>
  /\ op'.name = "Clear"
       => LET r == ClearLoop(data, <<>>)
          IN  Len(r.removed) = Len(data) /\ AllSentinel(r.removed)
  /\ op'.name = "DeleteItemById"
       => LET r == DeleteByIdBody(data, op'.key)
          IN  /\ Len(r.removed) = Len(data) - Len(data')
              /\ AllSentinel(r.removed)
  /\ op'.name = "DeleteItemsByParentId"
       => LET r == DeleteByParentBody(data, op'.key)
          IN  /\ Len(r.removed) = Len(data) - Len(data')
              /\ AllSentinel(r.removed)

RemovalSentinel == [][RemovalSentinelStep]_vars

\* a Pop from a full store: the entry handed back carries the sentinel
RemovalSentinelWitness ==
  /\ op.name = "Pop"
  /\ op.len = MaxLen
  /\ ret.err = "nil"
  /\ ret.item[1].index = -1
  /\ \A k \in 1..Len(data) : data[k].index = k - 1

\* C19: when the new priority p is >= the Priority of every stored entry,
\* UpdatePriorityByParentId(g, p) sets the Priority of every entry whose
\* ParentID is g to p and returns the number of those entries: the scan
\* meets each of them once although heap.Fix swaps entries under it.
RaisingUpdateExactStep ==
  (op'.name = "UpdatePriorityByParentId"
     /\ \A k \in 1..Len(data) : data[k].Priority <= op'.priority)
    => /\ ret'.n = Len(InGroup(data, op'.key))
       /\ \A k \in 1..Len(data') :
            data'[k].ParentID = op'.key => data'[k].Priority = op'.priority

RaisingUpdateExact == [][RaisingUpdateExactStep]_vars

\* an update of two entries to the top priority that lifted the group above
\* an entry of another group in a full store
RaisingUpdateExactWitness ==
  /\ op.name = "UpdatePriorityByParentId"
  /\ op.priority = MaxPriority
  /\ op.len = MaxLen
  /\ ret.n = 2
  /\ At(data, Len(data) - 1).ParentID # op.key
  /\ At(data, Len(data) - 1).Priority < op.priority

\* C20: under any interleaving of Push and Pop calls by several threads,
\* every pushed entry is returned by at most one Pop, every entry a Pop
\* returned had been pushed, every pushed entry is either still stored once
\* or was returned once, and when no call is in progress the length is the
\* number of Push calls less the number of Pop calls that returned an entry,
\* with the heap order and the recorded positions intact.  (A Pop that
\* panics returns nothing; see PopNeverPanics.)
RECURSIVE SumGot(_)
SumGot(n) == IF n = 0 THEN 0 ELSE got[n] + SumGot(n - 1)

Stored(tok) == {k \in 1..Len(data) : data[k].Value = tok}

NoLostNoDuplicate ==
  /\ \A tok \in 1..MaxPushes :
       /\ got[tok] <= 1
       /\ got[tok] > 0 => tok <= pushed
  /\ \A tok \in 1..pushed : Cardinality(Stored(tok)) + got[tok] = 1
  /\ (\A t \in Threads : pc[t] = Idle)
       => /\ Len(data) = pushed - SumGot(MaxPushes)
          /\ HeapInvariant
          /\ PositionConsistency

\* all MaxPushes pushes and two successful pops, by different threads, are
\* over and no call is in progress
NoLostNoDuplicateWitness ==
  /\ pushed = MaxPushes
  /\ SumGot(MaxPushes) = 2
  /\ Len(data) = MaxPushes - 2
  /\ \A t \in Threads : pc[t] = Idle
  /\ Cardinality({t \in Threads : popret[t] = "item"}) >= 2

====
